---- MODULE Spec2Model ----
(***************************************************************************)
(* flask-geckoboard: the widget decorators of flask_geckoboard/decorators.py *)
(*                                                                         *)
(* Two state machines share this module.                                   *)
(*   Spec      the dispatcher: one decorated view (WidgetDecorator), its   *)
(*             configuration, and the requests it serves, one action per   *)
(*             statement of decorated_view so that requests interleave.    *)
(*             SpecFair is Spec with handlers that run to completion.      *)
(*   SpecNorm  one call of a function on an input of a bounded set: the    *)
(*             authenticator, the widget normalizers (_convert_view_result *)
(*             of the widget classes, called once and once more on the     *)
(*             same object), the encryptor, and the key derivation, one    *)
(*             action per iteration of its loop.  SpecNormFair is SpecNorm *)
(*             with a key derivation that keeps running.                   *)
(*                                                                         *)
(* Python values are encoded as follows.  None is the string "None";       *)
(* booleans given as options are the strings "True" and "False"; a dict    *)
(* is a function from its keys; a value whose Python type the code tests   *)
(* carries a tag t.                                                        *)
(***************************************************************************)
EXTENDS Integers, Sequences, FiniteSets, TLC

VARIABLES
    encryption_enabled, \* module flag set by the import of pycrypto
    config,             \* app.config: GECKOBOARD_API_KEY, GECKOBOARD_PASSWORD
    dec,                \* the decorator object: _encrypted, _format, data
    kwargs0,            \* the keyword arguments the view was decorated with
    req,                \* the requests to the decorated view
    nz                  \* one call of a function: its name (fn), its input
                        \* as given (in) and as the calls left it (obj), the
                        \* locals of a loop under way (loc), the output of
                        \* the first call (out) and of the second (out2)

dispatcherVars == <<encryption_enabled, config, dec, kwargs0, req>>
vars == <<encryption_enabled, config, dec, kwargs0, req, nz>>

None == "None"

\* Python truth value of an option given as a string.
Truthy(v) == v \notin {"None", "False", ""}

\* A dict and a list, as the values self.data can hold.
PyDict(f) == [t |-> "dict", d |-> f, l |-> <<>>]
PyList(s) == [t |-> "list", d |-> <<>>, l |-> s]

EmptyDict == [k \in {} |-> ""]

\* dict.update: the keys of b are set in a, the other keys of a are kept.
DictUpdate(a, b) ==
    [k \in (DOMAIN a) \cup (DOMAIN b) |-> IF k \in DOMAIN b THEN b[k] ELSE a[k]]

\* The keys of f other than those of S (kwargs.pop of each key of S).
Without(f, S) == [k \in (DOMAIN f) \ S |-> f[k]]

-----------------------------------------------------------------------------
(* Bounds and the small sets inputs are drawn from.                        *)

NumRequests == 2
Requests == 1..NumRequests

OptionKeys == {"k1", "k2"}
StaticValues == {"s1"}

ApiKeys == {None, "K1"}
Passwords == {None, "pw"}
Salts == {"salt1", "salt2"}

\* request.authorization: absent, or a scheme with username and password.
NoAuth == [type |-> "none", username |-> "", password |-> ""]
AllAuths ==
    {NoAuth} \cup
    [type : {"basic", "digest"}, username : {"K1", "K2"}, password : {"X", "Y"}]

\* The credentials the requests of the dispatcher carry.
Auths ==
    { NoAuth,
      [type |-> "basic", username |-> "K1", password |-> "X"],
      [type |-> "basic", username |-> "K1", password |-> "Y"] }

\* Keyword arguments of a decoration: widget options, encrypted?, format?.
StaticOptions == UNION { [S -> StaticValues] : S \in SUBSET OptionKeys }
EncryptedArgs == {EmptyDict, [encrypted |-> "True"], [encrypted |-> "False"]}
FormatArgs == {EmptyDict, [format |-> "json"], [format |-> "xml"]}
Kwargs == { o @@ e @@ f : o \in StaticOptions, e \in EncryptedArgs, f \in FormatArgs }

\* What the wrapped view returns: a dict, or a list that dict.update rejects
\* with ValueError (an element that is no key/value pair).
ViewDicts ==
    { [k1 |-> "v1"], [k2 |-> "v2"], [k1 |-> "v2", k2 |-> "v1"] }
BadList == PyList(<<"abc">>)
ViewResults == { PyDict(f) : f \in ViewDicts } \cup {BadList}

-----------------------------------------------------------------------------
(* Authenticator, serializer, encryptor.                                   *)

\* A wrong password is accepted when the username matches.
_is_api_key_correct_no_password(api_key, auth) ==
    IF api_key = None THEN TRUE
    ELSE IF auth # NoAuth
         THEN IF auth.type = "basic"
              THEN auth.username = api_key
              ELSE FALSE
         ELSE FALSE

_is_api_key_correct(api_key, auth) ==
    IF api_key = None THEN TRUE
    ELSE IF auth # NoAuth
         THEN IF auth.type = "basic"
              THEN auth.username = api_key /\ auth.password = "X"
              ELSE FALSE
         ELSE FALSE

NoContent == [t |-> "none", of |-> PyDict(EmptyDict), salt |-> ""]

\* json.dumps(data): the JSON text of data.
Dumps(data) == [t |-> "json", of |-> data, salt |-> ""]

\* _encrypt(data_json): base64 of 'Salted__' + salt + ciphertext.
Encrypt(data_json, salt) == [t |-> "b64", of |-> data_json.of, salt |-> salt]

\* WidgetDecorator._convert_view_result: the base class changes nothing.
_convert_view_result(data) == data

-----------------------------------------------------------------------------
(* The dispatcher.                                                         *)

NewRequest ==
    [pc |-> "new", auth |-> NoAuth, view_calls |-> 0,
     view_result |-> PyDict(EmptyDict), data |-> PyDict(EmptyDict),
     content |-> NoContent, content_type |-> None, status |-> 0]

NoDecorator ==
    [state |-> "none", _encrypted |-> None, _format |-> None,
     data |-> PyDict(EmptyDict)]

NoOutput == [ok |-> FALSE, error |-> "", payload |-> <<>>]

NoLocals == [d |-> <<>>, d_i |-> <<>>, n |-> 0]

IdleNormalizer ==
    [pc |-> "idle", fn |-> "none", in |-> <<>>, obj |-> <<>>, loc |-> NoLocals,
     out |-> NoOutput, out2 |-> NoOutput]

Init ==
    /\ encryption_enabled \in BOOLEAN
    /\ config \in [GECKOBOARD_API_KEY : ApiKeys, GECKOBOARD_PASSWORD : Passwords]
    /\ dec = NoDecorator
    /\ kwargs0 = EmptyDict
    /\ req = [r \in Requests |-> NewRequest]
    /\ nz = IdleNormalizer

\* __new__ without the check of encryption_enabled.
DecorateUnchecked(kwargs) ==
    /\ dec.state = "none"
    /\ kwargs0' = kwargs
    /\ dec' = [state |-> "ready",
               _encrypted |-> IF "encrypted" \in DOMAIN kwargs
                              THEN kwargs["encrypted"] ELSE None,
               _format |-> IF "format" \in DOMAIN kwargs
                           THEN kwargs["format"] ELSE None,
               data |-> PyDict(Without(kwargs, {"encrypted", "format"}))]
    /\ UNCHANGED <<encryption_enabled, config, req, nz>>

\* WidgetDecorator.__new__ and __call__: the view is decorated, or the
\* decoration raises GeckoboardException.
Decorate(kwargs) ==
    /\ dec.state = "none"
    /\ kwargs0' = kwargs
    /\ IF "encrypted" \in DOMAIN kwargs /\ ~encryption_enabled
       THEN dec' = [dec EXCEPT !.state = "raised"]
       ELSE dec' = [state |-> "ready",
                    _encrypted |-> IF "encrypted" \in DOMAIN kwargs
                                   THEN kwargs["encrypted"] ELSE None,
                    _format |-> IF "format" \in DOMAIN kwargs
                                THEN kwargs["format"] ELSE None,
                    data |-> PyDict(Without(kwargs, {"encrypted", "format"}))]
    /\ UNCHANGED <<encryption_enabled, config, req, nz>>

\* decorated_view without abort(403): a failed check is ignored.
CallNoAbort(r, auth) ==
    /\ dec.state = "ready"
    /\ req[r].pc = "new"
    /\ req' = [req EXCEPT ![r].auth = auth, ![r].pc = "authenticated"]
    /\ UNCHANGED <<encryption_enabled, config, dec, kwargs0, nz>>

\* decorated_view, lines 69-70: the request arrives with its credentials and
\* is aborted with 403 when the check fails.
Call(r, auth) ==
    /\ dec.state = "ready"
    /\ req[r].pc = "new"
    /\ IF _is_api_key_correct(config.GECKOBOARD_API_KEY, auth)
       THEN req' = [req EXCEPT ![r].auth = auth, ![r].pc = "authenticated"]
       ELSE req' = [req EXCEPT ![r].auth = auth, ![r].pc = "rejected",
                               ![r].status = 403]
    /\ UNCHANGED <<encryption_enabled, config, dec, kwargs0, nz>>

\* line 71: view_result = view_func(*args, **kwargs)
InvokeView(r, result) ==
    /\ req[r].pc = "authenticated"
    /\ req' = [req EXCEPT ![r].view_result = result,
                          ![r].view_calls = @ + 1,
                          ![r].pc = "view_invoked"]
    /\ UNCHANGED <<encryption_enabled, config, dec, kwargs0, nz>>

\* line 72: data = self._convert_view_result(view_result)
Convert(r) ==
    /\ req[r].pc = "view_invoked"
    /\ req' = [req EXCEPT ![r].data = _convert_view_result(req[r].view_result),
                          ![r].pc = "normalized"]
    /\ UNCHANGED <<encryption_enabled, config, dec, kwargs0, nz>>

\* lines 73-76: what self.data is after self.data.update(data), or after
\* self.data = data when update raised ValueError.
MergedData(self_data, data) ==
    IF data.t = "dict" THEN PyDict(DictUpdate(self_data.d, data.d)) ELSE data

\* lines 73-76.  A self.data that is no dict has no update: AttributeError.
Merge(r) ==
    /\ req[r].pc = "normalized"
    /\ IF dec.data.t # "dict"
       THEN /\ req' = [req EXCEPT ![r].pc = "error", ![r].status = 500]
            /\ dec' = dec
       ELSE /\ dec' = [dec EXCEPT !.data = MergedData(dec.data, req[r].data)]
            /\ req' = [req EXCEPT ![r].pc = "merged"]
    /\ UNCHANGED <<encryption_enabled, config, kwargs0, nz>>

\* A _render that answers XML unless the format is json.
RenderByFormat(r) ==
    /\ req[r].pc = "merged"
    /\ req' = [req EXCEPT ![r].content = Dumps(dec.data),
                          ![r].content_type = IF dec._format \in {None, "json"}
                                              THEN "application/json"
                                              ELSE "application/xml",
                          ![r].pc = "rendered"]
    /\ UNCHANGED <<encryption_enabled, config, dec, kwargs0, nz>>

\* line 77: _render, _render_json and _encrypt.  With no password _encrypt
\* raises TypeError in _derive_key_and_iv.
Render(r) ==
    /\ req[r].pc = "merged"
    /\ IF Truthy(dec._encrypted)
       THEN IF config.GECKOBOARD_PASSWORD = None
            THEN req' = [req EXCEPT ![r].pc = "error", ![r].status = 500]
            ELSE \E salt \in Salts :
                    req' = [req EXCEPT ![r].content = Encrypt(Dumps(dec.data), salt),
                                       ![r].content_type = "application/json",
                                       ![r].pc = "rendered"]
       ELSE req' = [req EXCEPT ![r].content = Dumps(dec.data),
                               ![r].content_type = "application/json",
                               ![r].pc = "rendered"]
    /\ UNCHANGED <<encryption_enabled, config, dec, kwargs0, nz>>

\* line 78: return app.response_class(content, mimetype=content_type)
Respond(r) ==
    /\ req[r].pc = "rendered"
    /\ req' = [req EXCEPT ![r].pc = "responded", ![r].status = 200]
    /\ UNCHANGED <<encryption_enabled, config, dec, kwargs0, nz>>

Next ==
    \/ \E kwargs \in Kwargs : Decorate(kwargs)
    \/ \E r \in Requests, auth \in Auths : Call(r, auth)
    \/ \E r \in Requests, result \in ViewResults : InvokeView(r, result)
    \/ \E r \in Requests : Convert(r)
    \/ \E r \in Requests : Merge(r)
    \/ \E r \in Requests : Render(r)
    \/ \E r \in Requests : Respond(r)

Spec == Init /\ [][Next]_vars

-----------------------------------------------------------------------------
(* The pure functions: the authenticator and the widget normalizers.       *)

\* A call that returned value, and a call that raised error.
Return(value) == [ok |-> TRUE, error |-> "", payload |-> value]
Raise(error) == [ok |-> FALSE, error |-> error, payload |-> <<>>]

MaxSeries == 2

SeqsUpTo(S, n) == UNION { [1..m -> S] : m \in 0..n }

\* The elements of s, and whether x is one of them (x in s, for a list s).
Elems(s) == { s[i] : i \in DOMAIN s }

AuthInputs == [api_key : {None, "K1", "K2"}, auth : AllAuths]

\* View results given to the line chart: dicts with or without series,
\* x_axis and y_axis, and lists (of strings).
SeriesEntries == { [data |-> <<1, 2>>], [data |-> <<3>>, name |-> "n"], [name |-> "n"] }
LineChartDicts ==
    { s @@ x @@ y :
        s \in {EmptyDict} \cup { [series |-> e] : e \in SeqsUpTo(SeriesEntries, MaxSeries) },
        x \in {EmptyDict, [x_axis |-> "xlabels"]},
        y \in {EmptyDict, [y_axis |-> "ylabels"]} }
LineChartInputs ==
    { PyDict(f) : f \in LineChartDicts } \cup
    { PyList(l) : l \in SeqsUpTo({"series", "x_axis"}, 2) }

\* The normalizer with the type test the right way round and no test of the
\* series entries.
LineChartConvertUnchecked(result) ==
    IF result.t # "dict" \/ "series" \notin DOMAIN result.d
    THEN Raise("RuntimeError")
    ELSE Return([series |-> result.d["series"]]
                @@ (IF "x_axis" \in DOMAIN result.d
                    THEN [x_axis |-> result.d["x_axis"]] ELSE EmptyDict)
                @@ (IF "y_axis" \in DOMAIN result.d
                    THEN [y_axis |-> result.d["x_axis"]] ELSE EmptyDict))

\* LineChartWidgetDecorator._convert_view_result.
\*   line 256: a result that is no list raises at once ('or' does not look at
\*             its second operand); a list is searched for 'series'.
\*   line 258: a list has no get: AttributeError.
\*   line 259: isinstance('data', dict) tests the string 'data' and is false,
\*             so every entry of series raises.
\*   line 267: y_axis is given the value of x_axis (None when x_axis is absent).
LineChartConvert(result) ==
    IF result.t # "list" \/ "series" \notin Elems(result.l)
    THEN Raise("RuntimeError")
    ELSE IF result.t # "dict"
    THEN Raise("AttributeError")
    ELSE IF \E i \in DOMAIN result.d["series"] :
                TRUE \/ "data" \notin DOMAIN result.d["series"][i]
    THEN Raise("RuntimeError")
    ELSE Return([series |-> result.d["series"]]
                @@ (IF "x_axis" \in DOMAIN result.d
                    THEN [x_axis |-> result.d["x_axis"]] ELSE EmptyDict)
                @@ (IF "y_axis" \in DOMAIN result.d
                    THEN [y_axis |-> IF "x_axis" \in DOMAIN result.d
                                     THEN result.d["x_axis"] ELSE None]
                    ELSE EmptyDict))

MaxItems == 2

\* A number of a payload: an int, or a float held in hundredths.
PyInt(n) == [t |-> "int", n |-> n]
PyFloat(h) == [t |-> "float", n |-> h]

\* A value the code tests with isinstance(v, (ListType, TupleType)).
Scalar(n) == [t |-> "int", l |-> <<n>>]
Pair(a, b) == [t |-> "list", l |-> <<a, b>>]

SuppliedRange ==
    << [color |-> "red", start |-> 0, end |-> 1],
       [color |-> "amber", start |-> 1, end |-> 5],
       [color |-> "green", start |-> 5, end |-> 10] >>

AxisPointSets ==
    { <<>>, <<0, 900>>, <<100, 400, 1000>>, <<0, 5000>>,
      <<0, 2500000>>, <<0, 2000000000>> }

\* View results given to the bullet widget: one dict with the required keys
\* and any of the optional ones, a dict that lacks a required key, or a list
\* of dicts.
BulletFullDicts ==
    { [label |-> "Revenue", axis_points |-> ap, current |-> cur]
        @@ p @@ r @@ c @@ sl @@ a @@ o :
        ap \in AxisPointSets,
        cur \in {Scalar(500), Pair(100, 500)},
        p \in {EmptyDict, [projected |-> Scalar(900)], [projected |-> Pair(100, 900)]},
        r \in {EmptyDict, [range |-> <<>>], [range |-> SuppliedRange]},
        c \in {EmptyDict, [comparative |-> 600]},
        sl \in {EmptyDict, [sublabel |-> ""], [sublabel |-> "U.S. $"]},
        a \in {EmptyDict, [auto_scale |-> TRUE], [auto_scale |-> FALSE]},
        o \in {EmptyDict, [orientation |-> "vertical"]} }
BulletListItems ==
    { [label |-> "Revenue", axis_points |-> <<0, 900>>, current |-> Scalar(500),
       range |-> SuppliedRange],
      [label |-> "Costs", axis_points |-> <<>>, current |-> Pair(100, 500),
       orientation |-> "vertical"],
      [label |-> "Users", axis_points |-> <<0, 5000>>, current |-> Scalar(500),
       range |-> SuppliedRange],
      [label |-> "Broken", current |-> Scalar(500)] }
BulletInputs ==
    { PyDict(f) : f \in BulletFullDicts } \cup
    { PyDict(Without(f, {k})) :
        f \in BulletListItems, k \in {"label", "axis_points", "current"} } \cup
    { PyList(l) : l \in SeqsUpTo(BulletListItems, MaxItems) }

RECURSIVE SeqMax(_)
SeqMax(s) ==
    IF Len(s) = 1 THEN s[1]
    ELSE LET m == SeqMax(Tail(s)) IN IF s[1] >= m THEN s[1] ELSE m

RECURSIVE SeqMin(_)
SeqMin(s) ==
    IF Len(s) = 1 THEN s[1]
    ELSE LET m == SeqMin(Tail(s)) IN IF s[1] <= m THEN s[1] ELSE m

\* lines 388-392: a singleton current or projected v becomes [0, v].
AsRange(v) == IF v.t = "list" THEN v.l ELSE <<0, v.l[1]>>

\* lines 422-427: the largest of 1e9, 1e6, 1e3 not above the largest axis
\* point, or 1.
BulletScale(axis_points) ==
    LET value == SeqMax(axis_points) IN
    IF value >= 1000000000 THEN 1000000000
    ELSE IF value >= 1000000 THEN 1000000
    ELSE IF value >= 1000 THEN 1000
    ELSE 1

\* lines 431-432: float('%.2f' % (value*1.0 / scale)), in hundredths, for a
\* scale of 1e3, 1e6 or 1e9.  A quotient that lies exactly between two
\* hundredths is rounded as its binary double falls; no value of the model
\* is such a tie.
scaler(value, scale) ==
    LET unit == scale \div 100
        q == value \div unit
        r == value % unit
    IN PyFloat(IF 2 * r > unit THEN q + 1 ELSE q)

ZeroRange ==
    << [color |-> "red", start |-> 0, end |-> 0],
       [color |-> "amber", start |-> 0, end |-> 0],
       [color |-> "green", start |-> 0, end |-> 0] >>

\* BulletWidgetDecorator._convert_view_result, the body of the loop
\* (lines 381-471) for one result.
\*   line 383: a missing required key raises RuntimeError.
\*   line 402: with no range and some axis points the code calls
\*             range.append, and range is the builtin function:
\*             AttributeError, before any default range exists.
\*   line 441: with a scale above 1 the code reads the local red, which
\*             nothing assigns: UnboundLocalError.  Lines 436-440 have scaled
\*             local copies by then and lines 444-453, which would write the
\*             scaled comparative and the sublabel into result, are not
\*             reached, so no scaled value leaves the function and result
\*             is not changed.
\*   lines 456-469: the data of the item.
BulletItem(result) ==
    IF \E k \in {"label", "axis_points", "current"} : k \notin DOMAIN result
    THEN Raise("RuntimeError")
    ELSE
    LET current == AsRange(result["current"])
        has_projected == "projected" \in DOMAIN result
        axis_points == result["axis_points"]
        range0 == IF "range" \in DOMAIN result THEN result["range"] ELSE <<>>
        auto_scale == IF "auto_scale" \in DOMAIN result
                      THEN result["auto_scale"] ELSE TRUE
        scale == IF auto_scale /\ axis_points # <<>>
                 THEN BulletScale(axis_points) ELSE 1
    IN
    IF range0 = <<>> /\ axis_points # <<>>
    THEN Raise("AttributeError")
    ELSE IF scale > 1
    THEN Raise("UnboundLocalError")
    ELSE Return(
        [label |-> result["label"],
         axis |-> [point |-> [i \in DOMAIN axis_points |-> PyInt(axis_points[i])]],
         range |-> IF range0 = <<>> THEN ZeroRange ELSE range0,
         measure |->
            [current |-> [start |-> PyInt(current[1]), end |-> PyInt(current[2])]]
            @@ (IF has_projected
                THEN [projected |->
                        [start |-> PyInt(AsRange(result["projected"])[1]),
                         end |-> PyInt(AsRange(result["projected"])[2])]]
                ELSE EmptyDict)]
        @@ (IF "comparative" \in DOMAIN result
            THEN [comparative |-> [point |-> PyInt(result["comparative"])]]
            ELSE EmptyDict)
        @@ (IF "sublabel" \in DOMAIN result
            THEN [sublabel |-> result["sublabel"]] ELSE EmptyDict))

\* BulletWidgetDecorator._convert_view_result.
\*   lines 377-378: a result that is no list is the only item.
\*   lines 380-471: the items in order; the first that raises ends the call.
\*   line 473: orientation is read from result, the last item of the loop;
\*             after an empty list result was never assigned.
BulletConvert(results) ==
    LET items == IF results.t # "list" THEN <<results.d>> ELSE results.l
        failed == { i \in DOMAIN items : ~BulletItem(items[i]).ok }
    IN
    IF failed # {}
    THEN BulletItem(items[CHOOSE i \in failed : \A j \in failed : i <= j])
    ELSE IF items = <<>>
    THEN Raise("UnboundLocalError")
    ELSE Return(
        [item |-> [i \in DOMAIN items |-> BulletItem(items[i]).payload],
         orientation |-> IF "orientation" \in DOMAIN items[Len(items)]
                         THEN items[Len(items)]["orientation"]
                         ELSE "horizontal"])

MaxFunnelItems == 3

\* The order of Python on the strings the funnel items are labelled with.
StrRank == [x \in {"100 %", "50 %"} |-> IF x = "100 %" THEN 1 ELSE 2]

\* Python's order on tuples (value, label): by value, then by label.
TupleLess(a, b) ==
    \/ a[1] < b[1]
    \/ a[1] = b[1] /\ StrRank[a[2]] < StrRank[b[2]]

\* list.sort(reverse=True): x takes its place after the elements that are
\* not less than it, so equal elements keep their order.
InsertDesc(x, s) ==
    LET before == { i \in DOMAIN s : ~TupleLess(s[i], x) }
        n == IF before = {} THEN 0
             ELSE CHOOSE i \in before : \A j \in before : j <= i
    IN SubSeq(s, 1, n) \o <<x>> \o SubSeq(s, n + 1, Len(s))

RECURSIVE SortDesc(_)
SortDesc(s) ==
    IF s = <<>> THEN <<>>
    ELSE InsertDesc(s[Len(s)], SortDesc(SubSeq(s, 1, Len(s) - 1)))

\* dict(zip(("value", "label"), item)): as many of the keys as item has
\* elements, at most two.
ZipValueLabel(item) ==
    (IF Len(item) >= 1 THEN [value |-> item[1]] ELSE EmptyDict)
    @@ (IF Len(item) >= 2 THEN [label |-> item[2]] ELSE EmptyDict)

\* View results given to the funnel: items (pairs of value and label) and
\* any of sort, type and percentage.
FunnelPairs == { <<100, "100 %">>, <<50, "50 %">>, <<50, "100 %">>, <<75, "50 %">> }
FunnelInputs ==
    { PyDict(i @@ s @@ t @@ p) :
        i \in {EmptyDict} \cup { [items |-> l] : l \in SeqsUpTo(FunnelPairs, MaxFunnelItems) },
        s \in {EmptyDict, [sort |-> TRUE], [sort |-> FALSE]},
        t \in {EmptyDict, [type |-> "reverse"]},
        p \in {EmptyDict, [percentage |-> "hide"]} }

\* result.get(key, default)
Get(d, key, default) == IF key \in DOMAIN d THEN d[key] ELSE default

\* The funnel without lines 332-333: sort is ignored.
FunnelConvertUnsorted(result) ==
    LET items == Get(result.d, "items", <<>>)
    IN Return([item |-> [i \in DOMAIN items |-> ZipValueLabel(items[i])],
               type |-> Get(result.d, "type", "standard"),
               percentage |-> Get(result.d, "percentage", "show")])

\* FunnelWidgetDecorator._convert_view_result, lines 327-338.
FunnelConvert(result) ==
    LET items0 == Get(result.d, "items", <<>>)
        items == IF Get(result.d, "sort", FALSE) THEN SortDesc(items0) ELSE items0
    IN Return([item |-> [i \in DOMAIN items |-> ZipValueLabel(items[i])],
               type |-> Get(result.d, "type", "standard"),
               percentage |-> Get(result.d, "percentage", "show")])

\* The view result after the call: line 333 sorts the list the view
\* returned, in place.
FunnelAfter(result) ==
    IF "items" \in DOMAIN result.d /\ Get(result.d, "sort", FALSE)
    THEN PyDict([result.d EXCEPT !["items"] = SortDesc(@)])
    ELSE result

MaxRagElems == 3

\* None and the empty string as values of a payload.
PyNone == [t |-> "NoneType", n |-> 0]
PyEmptyStr == [t |-> "str", n |-> 0]

\* An element of a view result: a scalar v, or a tuple of elements.
Single(v) == [t |-> "scalar", l |-> <<v>>]
Tuple(s) == [t |-> "list", l |-> s]

\* if not isinstance(elem, (tuple, list)): elem = [elem]
AsList(e) == IF e.t = "list" THEN e.l ELSE <<e.l[1]>>

\* View results given to the RAG widget: a sequence whose elements are a
\* value, (value,) or (value, text); a value is a number or None.
RagValues == {PyInt(0), PyInt(5), PyNone}
RagElems ==
    { Single(v) : v \in RagValues } \cup
    { Tuple(<<v>>) : v \in RagValues } \cup
    { Tuple(<<v, "text1">>) : v \in RagValues }
RagInputs == { PyList(l) : l \in SeqsUpTo(RagElems, MaxRagElems) }

\* The RAG normalizer without lines 125-126: a value of None is kept.
RagConvertNoneKept(result) ==
    Return([item |->
        [i \in DOMAIN result.l |->
            LET elem == AsList(result.l[i])
            IN [value |-> elem[1]]
               @@ (IF Len(elem) > 1 THEN [text |-> elem[2]] ELSE EmptyDict)]])

\* RAGWidgetDecorator._convert_view_result, lines 119-132.
\*   lines 122-123: an element that is no tuple or list becomes [elem];
\*   lines 125-128: value is '' for None and elem[0] otherwise;
\*   lines 129-130: text is elem[1] when there is one.
RagConvert(result) ==
    Return([item |->
        [i \in DOMAIN result.l |->
            LET elem == AsList(result.l[i])
            IN [value |-> IF elem[1] = PyNone THEN PyEmptyStr ELSE elem[1]]
               @@ (IF Len(elem) > 1 THEN [text |-> elem[2]] ELSE EmptyDict)]])

MaxNumberElems == 3

\* View results given to the number widget: a number, a mapping, or a
\* sequence of numbers, mappings and tuples.
NumberElems ==
    { PyInt(42), PyInt(40), PyDict([value |-> PyInt(42), prefix |-> "$"]),
      PyList(<<PyInt(1)>>) }
NumberInputs ==
    { PyInt(42), PyDict([value |-> PyInt(42), prefix |-> "$"]) } \cup
    { PyList(l) : l \in SeqsUpTo(NumberElems, MaxNumberElems) }

\* The number normalizer without the test of line 102: every element is
\* wrapped.
NumberConvertWrapAll(result) ==
    LET elems == IF result.t # "list" THEN <<result>> ELSE result.l
    IN Return([item |-> [k \in DOMAIN elems |-> PyDict([value |-> elems[k]])]])

\* NumberWidgetDecorator._convert_view_result, lines 97-103.
\*   lines 98-99: a result that is no tuple or list is the only element;
\*   line 100:    the elements are copied into a new list;
\*   line 102:    a dict stays, any other v becomes {'value': v}.
NumberConvert(result) ==
    LET elems == IF result.t # "list" THEN <<result>> ELSE result.l
    IN Return([item |->
          [k \in DOMAIN elems |->
              IF elems[k].t = "dict" THEN elems[k]
              ELSE PyDict([value |-> elems[k]])]])

MaxTextElems == 2

TEXT_NONE == 0
TEXT_INFO == 2

\* View results given to the text widget: a message, or a sequence of
\* message, (message,), (message, type) and (message, None).
TextElems ==
    { Single("msg"), Tuple(<<"msg">>), Tuple(<<"msg", PyInt(TEXT_INFO)>>),
      Tuple(<<"msg", PyNone>>) }
TextInputs == {Single("msg")} \cup { PyList(l) : l \in SeqsUpTo(TextElems, MaxTextElems) }

\* TextWidgetDecorator._convert_view_result, lines 149-163.
TextConvert(result) ==
    LET elems == IF result.t # "list" THEN <<result>> ELSE result.l
    IN Return([item |->
          [i \in DOMAIN elems |->
              LET elem == AsList(elems[i])
              IN [text |-> elem[1],
                  type |-> IF Len(elem) > 1 /\ elem[2] # PyNone
                           THEN elem[2] ELSE PyInt(TEXT_NONE)]]])

MaxPieElems == 2

\* View results given to the pie chart: a sequence of value, (value, label)
\* and (value, label, colour).
PieElems ==
    { Single(PyInt(10)), Tuple(<<PyInt(10), "label">>),
      Tuple(<<PyInt(20), "label", "ff0000">>) }
PieInputs == { PyList(l) : l \in SeqsUpTo(PieElems, MaxPieElems) }

\* PieChartWidgetDecorator._convert_view_result, lines 177-189.
PieConvert(result) ==
    Return([item |->
        [i \in DOMAIN result.l |->
            LET elem == AsList(result.l[i])
            IN [value |-> elem[1]]
               @@ (IF Len(elem) > 1 THEN [label |-> elem[2]] ELSE EmptyDict)
               @@ (IF Len(elem) > 2 THEN [colour |-> elem[3]] ELSE EmptyDict)]])

\* View results given to the legacy line chart: a tuple (values, x_axis,
\* y_axis, colour) or a prefix of it; an axis is a label, None or a list
\* of labels.
LegacyAxes == { Single("Jan"), Single(None), Tuple(<<"Jan", "Feb">>) }
LegacyInputs ==
    {PyList(<<>>)} \cup
    { PyList(<<v>>) : v \in {Tuple(<<1, 2>>)} } \cup
    { PyList(<<Tuple(<<1, 2>>), x>>) : x \in LegacyAxes } \cup
    { PyList(<<Tuple(<<1, 2>>), x, y>>) : x \in LegacyAxes, y \in LegacyAxes } \cup
    { PyList(<<Tuple(<<1, 2>>), x, y, "ff0000">>) : x \in LegacyAxes, y \in LegacyAxes }

\* lines 215-218 and 223-226: None becomes '', and an axis that is no tuple
\* or list becomes a list of one.
LegacyAxis(a) ==
    IF a.t = "list" THEN a.l
    ELSE <<IF a.l[1] = None THEN "" ELSE a.l[1]>>

\* LineChartLegacyWidgetDecorator._convert_view_result, lines 208-232.
\* result[0] of an empty result raises IndexError.
LegacyConvert(result) ==
    IF Len(result.l) = 0 THEN Raise("IndexError")
    ELSE Return(
        [item |-> result.l[1].l,
         settings |->
            (IF Len(result.l) > 1
             THEN [axisx |-> LegacyAxis(result.l[2])] ELSE EmptyDict)
            @@ (IF Len(result.l) > 2
                THEN [axisy |-> LegacyAxis(result.l[3])] ELSE EmptyDict)
            @@ (IF Len(result.l) > 3
                THEN [colour |-> result.l[4]] ELSE EmptyDict)])

\* View results given to the geck-o-meter: (value, min, max), where min and
\* max are a value or (value, text); and a tuple of two.
GeckLimits == { Single(PyInt(0)), Tuple(<<PyInt(100), "limit">>) }
GeckInputs ==
    { PyList(<<PyInt(50), lo, hi>>) : lo \in GeckLimits, hi \in GeckLimits } \cup
    { PyList(<<PyInt(50), lo>>) : lo \in GeckLimits }

\* min or max as the mapping of lines 293-303.
GeckLimit(m) ==
    LET elem == AsList(m)
    IN [value |-> elem[1]]
       @@ (IF Len(elem) > 1 THEN [text |-> elem[2]] ELSE EmptyDict)

\* GeckOMeterWidgetDecorator._convert_view_result, lines 286-305.
\* line 287 unpacks three values, of any other number it raises ValueError.
GeckConvert(result) ==
    IF Len(result.l) # 3 THEN Raise("ValueError")
    ELSE Return([item |-> result.l[1],
                 max |-> GeckLimit(result.l[3]),
                 min |-> GeckLimit(result.l[2])])

\* _convert_view_result of the widget fn.
ConvertViewResult(fn, result) ==
    CASE fn = "widget" -> Return(_convert_view_result(result))
      [] fn = "number" -> NumberConvert(result)
      [] fn = "rag" -> RagConvert(result)
      [] fn = "text" -> TextConvert(result)
      [] fn = "pie_chart" -> PieConvert(result)
      [] fn = "line_chart_legacy" -> LegacyConvert(result)
      [] fn = "line_chart" -> LineChartConvert(result)
      [] fn = "geck_o_meter" -> GeckConvert(result)
      [] fn = "funnel" -> FunnelConvert(result)
      [] fn = "bullet" -> BulletConvert(result)

Widgets ==
    { "widget", "number", "rag", "text", "pie_chart", "line_chart_legacy",
      "line_chart", "geck_o_meter", "funnel", "bullet" }

\* A funnel whose call sorts the list of the view result whatever sort says.
AfterSortsAlways(fn, result) ==
    IF fn = "funnel" /\ "items" \in DOMAIN result.d
    THEN PyDict([result.d EXCEPT !["items"] = SortDesc(@)])
    ELSE result

\* The view result as a call of the normalizer leaves it.  The funnel
\* sorts the list of the view result (line 333).  No other normalizer
\* writes to its argument: the number widget writes to a copy (line 100);
\* the bullet widget writes to result only at lines 445-453, which follow
\* line 441, where every call that comes so far raises UnboundLocalError.
After(fn, result) ==
    IF fn = "funnel" THEN FunnelAfter(result) ELSE result

-----------------------------------------------------------------------------
(* Key derivation and encryption.  Strings are sequences of bytes.  A byte *)
(* of a digest or of a ciphertext is not computed: it is a record that     *)
(* names what it is a byte of.                                             *)

\* AES.block_size, and the length of an MD5 digest.
BS == 16
DigestSize == 16

MaxPlainLen == 33

\* 'Salted__'
Marker == <<83, 97, 108, 116, 101, 100, 95, 95>>

\* A str, and None where a str is expected.
PyStr(s) == [t |-> "str", l |-> s]
NoStr == [t |-> "NoneType", l |-> <<>>]

\* md5(x).digest(): DigestSize bytes, each determined by x.
md5digest(x) == [i \in 1..DigestSize |-> [of |-> x, i |-> i]]

\* s[a:b] of Python for a sequence s: a negative index counts from the end,
\* and indices are clipped to the sequence.
SliceIndex(s, i) ==
    IF i < 0 THEN (IF Len(s) + i < 0 THEN 0 ELSE Len(s) + i)
    ELSE IF i > Len(s) THEN Len(s) ELSE i
Slice(s, a, b) == SubSeq(s, SliceIndex(s, a) + 1, SliceIndex(s, b))

\* An iteration that hashes the password and the salt only.
DeriveIterationNoChain(loc, password, salt) ==
    LET d_i == md5digest(<< <<>>, password.l, salt>>)
    IN [d |-> loc.d \o d_i, d_i |-> d_i, n |-> loc.n + 1]

\* lines 492-493: one iteration of the loop of _derive_key_and_iv.
DeriveIteration(loc, password, salt) ==
    LET d_i == md5digest(<<loc.d_i, password.l, salt>>)
    IN [d |-> loc.d \o d_i, d_i |-> d_i, n |-> loc.n + 1]

\* line 491: the loop, from the locals loc on.
RECURSIVE DeriveLoop(_, _, _, _)
DeriveLoop(loc, password, salt, total) ==
    IF Len(loc.d) < total
    THEN DeriveLoop(DeriveIteration(loc, password, salt), password, salt, total)
    ELSE loc

\* line 494: return d[:key_length], d[key_length:key_length+iv_length]
DeriveResult(d, key_length, iv_length) ==
    [key |-> Slice(d, 0, key_length),
     iv |-> Slice(d, key_length, key_length + iv_length)]

\* _derive_key_and_iv, lines 489-494.  With a password of None the first
\* iteration raises TypeError ('' + None).
_derive_key_and_iv(password, salt, key_length, iv_length) ==
    IF 0 < key_length + iv_length /\ password = NoStr
    THEN Raise("TypeError")
    ELSE Return(DeriveResult(
            DeriveLoop(NoLocals, password, salt, key_length + iv_length).d,
            key_length, iv_length))

\* A pad that adds nothing to a plaintext that fills its last block.
padNoExtraBlock(s) ==
    LET p == (BS - (Len(s) % BS)) % BS IN s \o [i \in 1..p |-> p]

\* line 499: pad = lambda s: s + (BS - len(s) % BS) * chr(BS - len(s) % BS)
pad(s) ==
    LET p == BS - (Len(s) % BS) IN s \o [i \in 1..p |-> p]

\* cipher.encrypt(s) of AES in CBC mode: as many bytes as s has, and
\* ValueError for an s that is no whole number of blocks.
CbcEncrypt(key, iv, s) ==
    IF Len(s) % BS # 0 THEN Raise("ValueError")
    ELSE Return([i \in DOMAIN s |-> [enc |-> s[i], at |-> i]])

\* base64.b64encode(encrypted)
B64Encode(encrypted) == [t |-> "b64", raw |-> encrypted]

\* _encrypt, lines 496-505, for the salt that Random.new().read gave.
_encrypt(data, password, salt) ==
    LET derived == _derive_key_and_iv(password, salt, 32, BS) IN
    IF ~derived.ok THEN derived
    ELSE LET cipher == CbcEncrypt(derived.payload.key, derived.payload.iv, pad(data))
         IN IF ~cipher.ok THEN cipher
            ELSE Return(B64Encode(Marker \o salt \o cipher.payload))

\* Random.new().read(BS - len('Salted__')): strings of that length.
RandomSalts == { [i \in 1..(BS - Len(Marker)) |-> b] : b \in {1, 2} }

Plaintexts == { [i \in 1..n |-> 120 + (i % 2)] : n \in 0..MaxPlainLen }

EncryptInputs ==
    [data : Plaintexts, password : {PyStr(<<112, 119>>), NoStr}, salt : RandomSalts]

\* Arguments of _derive_key_and_iv: a passphrase (also the empty one, and
\* None), a salt (also the empty one), and lengths on both sides of the
\* digest size (also a negative one, which Python's slices accept).
KeyLengths == {-16, 0, 5, 16, 32}
IvLengths == {0, 11, 16}
DeriveInputs ==
    [password : {PyStr(<<112, 119>>), PyStr(<<>>), NoStr},
     salt : RandomSalts \cup {<<>>},
     key_length : KeyLengths, iv_length : IvLengths]

NormInputs(fn) ==
    CASE fn = "auth" -> AuthInputs
      [] fn = "line_chart" -> LineChartInputs
      [] fn = "bullet" -> BulletInputs
      [] fn = "funnel" -> FunnelInputs
      [] fn = "rag" -> RagInputs
      [] fn = "number" -> NumberInputs
      [] fn = "widget" -> ViewResults
      [] fn = "text" -> TextInputs
      [] fn = "pie_chart" -> PieInputs
      [] fn = "line_chart_legacy" -> LegacyInputs
      [] fn = "geck_o_meter" -> GeckInputs
      [] fn = "encrypt" -> EncryptInputs
      [] fn = "derive" -> DeriveInputs

InitNorm ==
    /\ encryption_enabled = TRUE
    /\ config = [GECKOBOARD_API_KEY |-> None, GECKOBOARD_PASSWORD |-> None]
    /\ dec = NoDecorator
    /\ kwargs0 = EmptyDict
    /\ req = [r \in Requests |-> NewRequest]
    /\ \E fn \in {"auth", "encrypt", "derive"} \cup Widgets :
          \E in \in NormInputs(fn) :
             nz = [pc |-> "ready", fn |-> fn, in |-> in, obj |-> in,
                   loc |-> NoLocals, out |-> NoOutput, out2 |-> NoOutput]

\* _is_api_key_correct() for one configured key and one request.
CheckApiKey ==
    /\ nz.pc = "ready" /\ nz.fn = "auth"
    /\ nz' = [nz EXCEPT !.pc = "done",
                         !.out = Return(_is_api_key_correct(nz.in.api_key, nz.in.auth))]
    /\ UNCHANGED dispatcherVars

NormalizeLineChart ==
    /\ nz.pc = "ready" /\ nz.fn = "line_chart"
    /\ nz' = [nz EXCEPT !.pc = "done", !.out = LineChartConvert(nz.in)]
    /\ UNCHANGED dispatcherVars

NormalizeBullet ==
    /\ nz.pc = "ready" /\ nz.fn = "bullet"
    /\ nz' = [nz EXCEPT !.pc = "done", !.out = BulletConvert(nz.in)]
    /\ UNCHANGED dispatcherVars

NormalizeFunnel ==
    /\ nz.pc = "ready" /\ nz.fn = "funnel"
    /\ nz' = [nz EXCEPT !.pc = "done", !.out = FunnelConvert(nz.in),
                         !.obj = After("funnel", nz.in)]
    /\ UNCHANGED dispatcherVars

NormalizeRag ==
    /\ nz.pc = "ready" /\ nz.fn = "rag"
    /\ nz' = [nz EXCEPT !.pc = "done", !.out = RagConvert(nz.in)]
    /\ UNCHANGED dispatcherVars

NormalizeNumber ==
    /\ nz.pc = "ready" /\ nz.fn = "number"
    /\ nz' = [nz EXCEPT !.pc = "done", !.out = NumberConvert(nz.in)]
    /\ UNCHANGED dispatcherVars

NormalizeWidget ==
    /\ nz.pc = "ready" /\ nz.fn = "widget"
    /\ nz' = [nz EXCEPT !.pc = "done", !.out = Return(_convert_view_result(nz.in))]
    /\ UNCHANGED dispatcherVars

NormalizeText ==
    /\ nz.pc = "ready" /\ nz.fn = "text"
    /\ nz' = [nz EXCEPT !.pc = "done", !.out = TextConvert(nz.in)]
    /\ UNCHANGED dispatcherVars

NormalizePieChart ==
    /\ nz.pc = "ready" /\ nz.fn = "pie_chart"
    /\ nz' = [nz EXCEPT !.pc = "done", !.out = PieConvert(nz.in)]
    /\ UNCHANGED dispatcherVars

NormalizeLineChartLegacy ==
    /\ nz.pc = "ready" /\ nz.fn = "line_chart_legacy"
    /\ nz' = [nz EXCEPT !.pc = "done", !.out = LegacyConvert(nz.in)]
    /\ UNCHANGED dispatcherVars

NormalizeGeckOMeter ==
    /\ nz.pc = "ready" /\ nz.fn = "geck_o_meter"
    /\ nz' = [nz EXCEPT !.pc = "done", !.out = GeckConvert(nz.in)]
    /\ UNCHANGED dispatcherVars

\* The normalizer is called a second time, on the same view result object.
NormalizeAgain ==
    /\ nz.pc = "done" /\ nz.fn \in Widgets
    /\ nz' = [nz EXCEPT !.pc = "done2",
                         !.out2 = ConvertViewResult(nz.fn, nz.obj),
                         !.obj = After(nz.fn, nz.obj)]
    /\ UNCHANGED dispatcherVars

\* _encrypt(data) with the configured password and a salt drawn.
EncryptData ==
    /\ nz.pc = "ready" /\ nz.fn = "encrypt"
    /\ nz' = [nz EXCEPT !.pc = "done",
                         !.out = _encrypt(nz.in.data, nz.in.password, nz.in.salt)]
    /\ UNCHANGED dispatcherVars

\* _derive_key_and_iv, lines 491-493: the loop condition holds and the body
\* runs once; with a password of None it raises TypeError.
DeriveStep ==
    /\ nz.pc = "ready" /\ nz.fn = "derive"
    /\ Len(nz.loc.d) < nz.in.key_length + nz.in.iv_length
    /\ IF nz.in.password = NoStr
       THEN nz' = [nz EXCEPT !.pc = "done", !.out = Raise("TypeError")]
       ELSE nz' = [nz EXCEPT !.loc = DeriveIteration(nz.loc, nz.in.password, nz.in.salt)]
    /\ UNCHANGED dispatcherVars

\* _derive_key_and_iv, lines 491 and 494: the loop condition fails and the
\* function returns.
DeriveReturn ==
    /\ nz.pc = "ready" /\ nz.fn = "derive"
    /\ ~(Len(nz.loc.d) < nz.in.key_length + nz.in.iv_length)
    /\ nz' = [nz EXCEPT !.pc = "done",
                         !.out = Return(DeriveResult(nz.loc.d, nz.in.key_length,
                                                     nz.in.iv_length))]
    /\ UNCHANGED dispatcherVars

NextNorm ==
    \/ CheckApiKey
    \/ NormalizeLineChart
    \/ NormalizeBullet
    \/ NormalizeFunnel
    \/ NormalizeRag
    \/ NormalizeNumber
    \/ NormalizeWidget
    \/ NormalizeText
    \/ NormalizePieChart
    \/ NormalizeLineChartLegacy
    \/ NormalizeGeckOMeter
    \/ NormalizeAgain
    \/ EncryptData
    \/ DeriveStep
    \/ DeriveReturn

SpecNorm == InitNorm /\ [][NextNorm]_vars

\* A key derivation that can take a step takes it.
SpecNormFair == SpecNorm /\ WF_vars(DeriveStep) /\ WF_vars(DeriveReturn)

-----------------------------------------------------------------------------
(* Properties of the dispatcher, checked under Spec.                       *)

\* The static options of the decoration: kwargs less encrypted and format.
StaticData == PyDict(Without(kwargs0, {"encrypted", "format"}))

\* C1: a request whose authentication check fails is rejected with status
\* 403 and an empty body, and the wrapped view is never invoked for it: it
\* has no view result, no normalized data and no rendered content.
AuthFailureRejects ==
    \A r \in Requests :
        (req[r].pc # "new"
         /\ ~_is_api_key_correct(config.GECKOBOARD_API_KEY, req[r].auth))
        => /\ req[r].pc = "rejected"
           /\ req[r].status = 403
           /\ req[r].view_calls = 0
           /\ req[r].content = NoContent
           /\ req[r].data = NewRequest.data

\* A request with a wrong password was rejected while another request was
\* served.
AuthFailureRejectsWitness ==
    \E r, q \in Requests :
        /\ req[r].pc = "rejected"
        /\ req[r].auth.password = "Y"
        /\ req[r].status = 403
        /\ req[q].pc = "responded"

\* C3: serving requests never changes the decorator's stored options: they
\* are the options the view was decorated with.
StaticOptionsUnchanged ==
    dec.state = "ready" => dec.data = StaticData

\* C4: the body of every response is the serialization of the static
\* options merged with the normalized result of that request's own view
\* call, and of nothing else.
ResponseFromOwnResultOnly ==
    \A r \in Requests :
        req[r].pc \in {"rendered", "responded"}
        => req[r].content.of = MergedData(StaticData, req[r].data)

\* C5: in the payload serialized for a request, every key of the normalized
\* view result carries the view's value, and every static option the view
\* result does not produce carries its static value.
ViewKeysTakePrecedence ==
    \A r \in Requests :
        (req[r].pc \in {"rendered", "responded"} /\ req[r].data.t = "dict")
        => /\ req[r].content.of.t = "dict"
           /\ \A k \in DOMAIN req[r].data.d :
                 /\ k \in DOMAIN req[r].content.of.d
                 /\ req[r].content.of.d[k] = req[r].data.d[k]
           /\ \A k \in (DOMAIN StaticData.d) \ (DOMAIN req[r].data.d) :
                 /\ k \in DOMAIN req[r].content.of.d
                 /\ req[r].content.of.d[k] = StaticData.d[k]

\* C6, as claimed: a decoration that asks for encryption while no passphrase
\* is configured, or while the cryptographic library is missing, raises, and
\* no request to the view reaches the view or the encryption.
EncryptionMisconfigurationRaises ==
    (/\ dec.state # "none"
     /\ "encrypted" \in DOMAIN kwargs0
     /\ Truthy(kwargs0["encrypted"])
     /\ (config.GECKOBOARD_PASSWORD = None \/ ~encryption_enabled))
    => /\ dec.state = "raised"
       /\ \A r \in Requests : req[r].pc = "new"

\* C6, as amended: a decoration given the encrypted option while the
\* cryptographic library is missing raises and no request is ever served;
\* a missing passphrase does not stop the decoration, and no request to
\* such a view is then answered: none gets past the encryption.
MissingLibraryRaisesAtDecoration ==
    /\ (dec.state # "none" /\ "encrypted" \in DOMAIN kwargs0 /\ ~encryption_enabled)
       => /\ dec.state = "raised"
          /\ \A r \in Requests : req[r] = NewRequest
    /\ (/\ dec.state # "none"
        /\ "encrypted" \in DOMAIN kwargs0
        /\ Truthy(kwargs0["encrypted"])
        /\ encryption_enabled
        /\ config.GECKOBOARD_PASSWORD = None)
       => /\ dec.state = "ready"
          /\ \A r \in Requests :
                /\ req[r].pc \notin {"rendered", "responded"}
                /\ req[r].content = NoContent

\* A decoration with encrypted=True has raised for want of the library.
MissingLibraryRaisesWitness ==
    /\ dec.state = "raised"
    /\ ~encryption_enabled
    /\ "encrypted" \in DOMAIN kwargs0
    /\ kwargs0["encrypted"] = "True"

\* One step of decorated_view for request r.
RequestStep(r) ==
    \/ \E auth \in Auths : Call(r, auth)
    \/ \E result \in ViewResults : InvokeView(r, result)
    \/ Convert(r)
    \/ Merge(r)
    \/ Render(r)
    \/ Respond(r)

\* The server runs every handler it has started: a view that can be
\* decorated is decorated, and a request that can take a step takes it.
SpecFair ==
    /\ Spec
    /\ WF_vars(\E kwargs \in Kwargs : Decorate(kwargs))
    /\ \A r \in Requests : WF_vars(RequestStep(r))

\* The order of the steps, as pairs of positions of a request.
DispatcherSteps ==
    { <<"new", "authenticated">>, <<"new", "rejected">>,
      <<"authenticated", "view_invoked">>, <<"view_invoked", "normalized">>,
      <<"normalized", "merged">>, <<"normalized", "error">>,
      <<"merged", "rendered">>, <<"merged", "error">>,
      <<"rendered", "responded">> }

\* What holds of request r wherever it stands.
RequestInOrder(r) ==
    LET pc == req[r].pc
        encrypted == "encrypted" \in DOMAIN kwargs0 /\ Truthy(kwargs0["encrypted"])
    IN /\ req[r].view_calls =
            IF pc \in {"new", "authenticated", "rejected"} THEN 0 ELSE 1
       /\ pc \in {"rendered", "responded"}
          => /\ req[r].content_type = "application/json"
             /\ req[r].content.t = IF encrypted THEN "b64" ELSE "json"
       /\ pc \notin {"rendered", "responded"}
          => req[r].content = NoContent /\ req[r].content_type = None
       /\ (pc = "responded") <=> (req[r].status = 200)
       /\ (pc = "rejected") <=> (req[r].status = 403)
       /\ (dec.state = "ready" /\ pc \notin {"responded", "rejected", "error"})
          => ENABLED RequestStep(r)

-----------------------------------------------------------------------------
(* Properties of the pure functions, checked under SpecNorm.               *)

Done(fn) == nz.pc = "done" /\ nz.fn = fn

\* C2: the authentication check returns true exactly when no API key is
\* configured, or the request has credentials of scheme basic whose
\* username is the configured key and whose password is 'X'.
AuthCheckExact ==
    Done("auth")
    => /\ nz.out.ok
       /\ nz.out.payload
           <=> \/ nz.in.api_key = None
               \/ /\ nz.in.auth # NoAuth
                  /\ nz.in.auth.type = "basic"
                  /\ nz.in.auth.username = nz.in.api_key
                  /\ nz.in.auth.password = "X"

\* The check has accepted the configured key with password 'X'.
AuthCheckExactWitness ==
    /\ Done("auth")
    /\ nz.in.api_key = "K1"
    /\ nz.in.auth = [type |-> "basic", username |-> "K1", password |-> "X"]
    /\ nz.out.payload = TRUE

\* The result is a mapping with a series entry.
HasSeries(result) == result.t = "dict" /\ "series" \in DOMAIN result.d

\* Every element of series is a mapping that contains data.
AllSeriesHaveData(result) ==
    \A i \in DOMAIN result.d["series"] : "data" \in DOMAIN result.d["series"][i]

\* C7: for a mapping whose series entries all contain data, the line chart
\* normalizer returns the input's series, the input's x_axis if present and
\* the input's y_axis if present, and nothing for an absent axis.
LineChartReturnsSeriesAndAxes ==
    (Done("line_chart") /\ HasSeries(nz.in) /\ AllSeriesHaveData(nz.in))
    => /\ nz.out.ok
       /\ DOMAIN nz.out.payload = (DOMAIN nz.in.d) \cap {"series", "x_axis", "y_axis"}
       /\ \A k \in DOMAIN nz.out.payload : nz.out.payload[k] = nz.in.d[k]

\* C8: the line chart normalizer fails with an error when the view result
\* has no series key, and when an entry of series lacks data.
LineChartRejectsBadShape ==
    (Done("line_chart")
     /\ (~HasSeries(nz.in) \/ ~AllSeriesHaveData(nz.in)))
    => ~nz.out.ok /\ nz.out.error # ""

\* The normalizer has failed on a mapping whose second series lacks data.
LineChartRejectsBadShapeWitness ==
    /\ Done("line_chart")
    /\ HasSeries(nz.in)
    /\ Len(nz.in.d["series"]) = 2
    /\ "data" \in DOMAIN nz.in.d["series"][1]
    /\ "data" \notin DOMAIN nz.in.d["series"][2]
    /\ ~nz.out.ok
    /\ nz.out.error = "RuntimeError"

\* One bullet item with its required keys, given as a mapping.
BulletSingle ==
    /\ Done("bullet")
    /\ nz.in.t = "dict"
    /\ {"label", "axis_points", "current"} \subseteq DOMAIN nz.in.d

\* auto_scale is true or absent and the largest axis point is at least 1000.
BulletScales(result) ==
    /\ ("auto_scale" \in DOMAIN result => result["auto_scale"])
    /\ result["axis_points"] # <<>>
    /\ SeqMax(result["axis_points"]) >= 1000

\* The default range the claim states: thirds of [min, max].
ClaimedThirds(axis_points) ==
    LET lo == SeqMin(axis_points)
        hi == SeqMax(axis_points)
        third == (hi - lo) \div 3
    IN << [color |-> "red", start |-> lo, end |-> lo + third - 1],
          [color |-> "amber", start |-> lo + third, end |-> hi - third - 1],
          [color |-> "green", start |-> hi - third, end |-> hi] >>

\* C9: for an item with no range (and no scaling), the bullet normalizer
\* returns the range red, amber, green that splits [min, max] of the axis
\* points into thirds, and three ranges from 0 to 0 when there are no axis
\* points.
BulletDefaultRangeThirds ==
    (BulletSingle /\ "range" \notin DOMAIN nz.in.d /\ ~BulletScales(nz.in.d))
    => /\ nz.out.ok
       /\ nz.out.payload["item"][1]["range"] =
            IF nz.in.d["axis_points"] = <<>>
            THEN ZeroRange
            ELSE ClaimedThirds(nz.in.d["axis_points"])

\* The scale name the claim suffixes to the sublabel.
ScaleName(scale) ==
    IF scale = 1000000000 THEN "billions"
    ELSE IF scale = 1000000 THEN "millions" ELSE "thousands"

Capitalized(name) ==
    IF name = "billions" THEN "Billions"
    ELSE IF name = "millions" THEN "Millions" ELSE "Thousands"

\* The item the claim states for a scaled result.
ClaimedScaledItem(result, item) ==
    LET scale == BulletScale(result["axis_points"])
        ap == result["axis_points"]
        cur == AsRange(result["current"])
    IN /\ item["axis"]["point"] = [i \in DOMAIN ap |-> scaler(ap[i], scale)]
       /\ item["measure"]["current"] =
            [start |-> scaler(cur[1], scale), end |-> scaler(cur[2], scale)]
       /\ "projected" \in DOMAIN result
          => item["measure"]["projected"] =
               [start |-> scaler(AsRange(result["projected"])[1], scale),
                end |-> scaler(AsRange(result["projected"])[2], scale)]
       /\ "comparative" \in DOMAIN result
          => item["comparative"] = [point |-> scaler(result["comparative"], scale)]
       /\ item["sublabel"] =
            IF "sublabel" \in DOMAIN result /\ result["sublabel"] # ""
            THEN result["sublabel"] \o " (" \o ScaleName(scale) \o ")"
            ELSE Capitalized(ScaleName(scale))

\* The item the claim states for a result that is not scaled.
ClaimedUnscaledItem(result, item) ==
    LET ap == result["axis_points"]
        cur == AsRange(result["current"])
    IN /\ item["axis"]["point"] = [i \in DOMAIN ap |-> PyInt(ap[i])]
       /\ item["measure"]["current"] =
            [start |-> PyInt(cur[1]), end |-> PyInt(cur[2])]
       /\ "projected" \in DOMAIN result
          => item["measure"]["projected"] =
               [start |-> PyInt(AsRange(result["projected"])[1]),
                end |-> PyInt(AsRange(result["projected"])[2])]
       /\ "comparative" \in DOMAIN result
          => item["comparative"] = [point |-> PyInt(result["comparative"])]
       /\ ("sublabel" \in DOMAIN item) = ("sublabel" \in DOMAIN result)
       /\ "sublabel" \in DOMAIN result => item["sublabel"] = result["sublabel"]

\* C10: for an item (with its range supplied) whose auto_scale is true or
\* absent and whose largest axis point is at least 1000, the bullet
\* normalizer returns the axis points, current, projected and comparative
\* divided by the scale and rounded to 2 decimals, and the sublabel with
\* the scale name; otherwise it changes no value.
BulletAutoScale ==
    (BulletSingle /\ "range" \in DOMAIN nz.in.d /\ nz.in.d["range"] # <<>>)
    => IF BulletScales(nz.in.d)
       THEN /\ nz.out.ok
            /\ ClaimedScaledItem(nz.in.d, nz.out.payload["item"][1])
       ELSE nz.out.ok
            => ClaimedUnscaledItem(nz.in.d, nz.out.payload["item"][1])

\* The items of a view result given to the bullet normalizer.
BulletItemsOf(results) == IF results.t # "list" THEN <<results.d>> ELSE results.l

\* The view result with key k of item i set to v.
BulletWithKey(results, i, k, v) ==
    IF results.t # "list"
    THEN PyDict((k :> v) @@ results.d)
    ELSE PyList([results.l EXCEPT ![i] = (k :> v) @@ @])

\* A value for each optional key of a bullet item.
BulletOptionalValues ==
    [comparative |-> {600}, sublabel |-> {"U.S. $"}, range |-> {SuppliedRange},
     projected |-> {Scalar(900), Pair(100, 900)}, orientation |-> {"vertical"},
     auto_scale |-> {TRUE, FALSE}]

\* C11: the bullet normalizer fails with an error and returns no payload
\* when an item lacks label, axis_points or current; and no item that has
\* the three is rejected for want of an optional key: a result that is
\* accepted once an absent optional key is supplied is accepted without it.
BulletRequiredKeysOnly ==
    Done("bullet")
    => LET items == BulletItemsOf(nz.in) IN
       /\ (\E i \in DOMAIN items :
              \E k \in {"label", "axis_points", "current"} : k \notin DOMAIN items[i])
          => ~nz.out.ok /\ nz.out.error # "" /\ nz.out.payload = <<>>
       /\ \A i \in DOMAIN items :
             {"label", "axis_points", "current"} \subseteq DOMAIN items[i]
             => \A k \in (DOMAIN BulletOptionalValues) \ (DOMAIN items[i]) :
                   (\E v \in BulletOptionalValues[k] :
                       BulletConvert(BulletWithKey(nz.in, i, k, v)).ok)
                   => nz.out.ok

\* The (value, label) mappings of a sequence of funnel items, in order.
FunnelMapped(items) == [i \in DOMAIN items |-> [value |-> items[i][1], label |-> items[i][2]]]

\* How many times x occurs in s.
Count(s, x) == Cardinality({ i \in DOMAIN s : s[i] = x })

\* C12: the funnel normalizer returns item as the {value, label} mappings
\* of the input items, in input order when sort is false or absent and in
\* non-increasing order of value (a permutation of them) when sort is
\* true; type is the input's type or 'standard', percentage the input's
\* percentage or 'show'.
FunnelItemsTypePercentage ==
    Done("funnel")
    => LET d == nz.in.d
           items == IF "items" \in DOMAIN d THEN d["items"] ELSE <<>>
           item == nz.out.payload["item"]
       IN /\ nz.out.ok
          /\ DOMAIN nz.out.payload = {"item", "type", "percentage"}
          /\ IF "sort" \in DOMAIN d /\ d["sort"]
             THEN /\ Len(item) = Len(items)
                  /\ \A x \in Elems(item) \cup Elems(FunnelMapped(items)) :
                        Count(item, x) = Count(FunnelMapped(items), x)
                  /\ \A i, j \in DOMAIN item :
                        i < j => item[i]["value"] >= item[j]["value"]
             ELSE item = FunnelMapped(items)
          /\ nz.out.payload["type"] =
                IF "type" \in DOMAIN d THEN d["type"] ELSE "standard"
          /\ nz.out.payload["percentage"] =
                IF "percentage" \in DOMAIN d THEN d["percentage"] ELSE "show"

\* The funnel has put three items given in increasing order of value into
\* decreasing order.
FunnelItemsTypePercentageWitness ==
    /\ Done("funnel")
    /\ "sort" \in DOMAIN nz.in.d /\ nz.in.d["sort"]
    /\ "items" \in DOMAIN nz.in.d
    /\ nz.in.d["items"] = << <<50, "50 %">>, <<75, "50 %">>, <<100, "100 %">> >>
    /\ nz.out.ok
    /\ nz.out.payload["item"] =
          << [value |-> 100, label |-> "100 %"], [value |-> 75, label |-> "50 %"],
             [value |-> 50, label |-> "50 %"] >>
    /\ nz.out.payload["type"] = "standard"

\* C13: the RAG normalizer gives one item per element of the input, in
\* order: value is the element's value, or '' (not 0, not None) when that
\* value is None; text is present exactly when the element is a pair
\* (value, text), and is then that text.
RagItemPerElement ==
    Done("rag")
    => /\ nz.out.ok
       /\ DOMAIN nz.out.payload = {"item"}
       /\ Len(nz.out.payload["item"]) = Len(nz.in.l)
       /\ \A i \in DOMAIN nz.in.l :
             LET e == nz.in.l[i]
                 item == nz.out.payload["item"][i]
                 is_pair == e.t = "list" /\ Len(e.l) = 2
             IN /\ item["value"] = IF e.l[1] = PyNone THEN PyEmptyStr ELSE e.l[1]
                /\ item["value"] # PyNone
                /\ e.l[1] = PyNone => item["value"] # PyInt(0)
                /\ ("text" \in DOMAIN item) <=> is_pair
                /\ is_pair => item["text"] = e.l[2]

\* The RAG normalizer has converted (None, 'text1'), 0, (5, 'text1').
RagItemPerElementWitness ==
    /\ Done("rag")
    /\ nz.in.l = << Tuple(<<PyNone, "text1">>), Single(PyInt(0)),
                    Tuple(<<PyInt(5), "text1">>) >>
    /\ nz.out.ok
    /\ nz.out.payload["item"] =
          << [value |-> PyEmptyStr, text |-> "text1"], [value |-> PyInt(0)],
             [value |-> PyInt(5), text |-> "text1"] >>

\* C14: the number normalizer returns {item: L} with one entry of L per
\* element of the input, in order (an input that is no sequence is the one
\* element): a mapping is passed through unchanged, any other v becomes
\* {value: v}; 42 gives {item: [{value: 42}]} and (42, 40) gives
\* {item: [{value: 42}, {value: 40}]}.
NumberWrapsNonMappings ==
    Done("number")
    => LET elems == IF nz.in.t = "list" THEN nz.in.l ELSE <<nz.in>>
       IN /\ nz.out.ok
          /\ DOMAIN nz.out.payload = {"item"}
          /\ Len(nz.out.payload["item"]) = Len(elems)
          /\ \A k \in DOMAIN elems :
                nz.out.payload["item"][k] =
                    IF elems[k].t = "dict" THEN elems[k]
                    ELSE PyDict([value |-> elems[k]])
          /\ nz.in = PyInt(42)
             => nz.out.payload = [item |-> <<PyDict([value |-> PyInt(42)])>>]
          /\ nz.in = PyList(<<PyInt(42), PyInt(40)>>)
             => nz.out.payload = [item |-> <<PyDict([value |-> PyInt(42)]),
                                            PyDict([value |-> PyInt(40)])>>]

\* The number normalizer has converted (42, {value: 42, prefix: '$'}, 40):
\* the mapping is passed through between the two wrapped numbers.
NumberWrapsNonMappingsWitness ==
    /\ Done("number")
    /\ nz.in = PyList(<<PyInt(42), PyDict([value |-> PyInt(42), prefix |-> "$"]),
                        PyInt(40)>>)
    /\ nz.out.ok
    /\ nz.out.payload["item"] =
          << PyDict([value |-> PyInt(42)]),
             PyDict([value |-> PyInt(42), prefix |-> "$"]),
             PyDict([value |-> PyInt(40)]) >>

\* The funnel was asked to sort.
FunnelSorts == nz.fn = "funnel" /\ "sort" \in DOMAIN nz.in.d /\ nz.in.d["sort"]

EncryptPadsAndFrames ==
    (Done("encrypt") /\ nz.in.password # NoStr)
    => /\ nz.out.ok
       /\ nz.out.payload.t = "b64"
       /\ LET raw == nz.out.payload.raw
              n == Len(nz.in.data)
              ciphertext == SubSeq(raw, BS + 1, Len(raw))
              p == Len(ciphertext) - n
          IN /\ p = BS - (n % BS)
             /\ 1 <= p /\ p <= BS
             /\ (n + p) % BS = 0
             /\ n % BS = 0 => p = BS
             /\ \A i \in 1..n : ciphertext[i] = [enc |-> nz.in.data[i], at |-> i]
             /\ \A i \in (n + 1)..(n + p) : ciphertext[i] = [enc |-> p, at |-> i]
             /\ SubSeq(raw, 1, 8) = Marker
             /\ SubSeq(raw, 9, BS) = nz.in.salt
             /\ Len(nz.in.salt) = BS - 8
             /\ Len(raw) = BS + n + p

\* A plaintext of two whole blocks has been encrypted: it got a third
\* block of padding, 64 bytes in all.
EncryptPadsAndFramesWitness ==
    /\ Done("encrypt")
    /\ Len(nz.in.data) = 2 * BS
    /\ nz.out.ok
    /\ Len(nz.out.payload.raw) = 4 * BS
    /\ nz.out.payload.raw[4 * BS] = [enc |-> BS, at |-> 3 * BS]

\* Block k of the stream d: the bytes the k-th iteration appended.
DeriveBlock(d, k) == SubSeq(d, DigestSize * (k - 1) + 1, DigestSize * k)

\* What holds of a key derivation with a passphrase, under way or done.
DeriveInOrder ==
    LET total == nz.in.key_length + nz.in.iv_length
        d == nz.loc.d
        n == nz.loc.n
    IN /\ Len(d) = DigestSize * n
       /\ \A k \in 1..n :
             DeriveBlock(d, k) =
                md5digest(<<IF k = 1 THEN <<>> ELSE DeriveBlock(d, k - 1),
                            nz.in.password.l, nz.in.salt>>)
       /\ n > 0 => DigestSize * (n - 1) < total
       /\ nz.pc = "done"
          => /\ nz.out.ok
             /\ DigestSize * n >= total
             /\ (nz.in.key_length = 32 /\ nz.in.iv_length = 16) => n = 3
             /\ nz.out = _derive_key_and_iv(nz.in.password, nz.in.salt,
                                             nz.in.key_length, nz.in.iv_length)
             /\ nz.in.key_length >= 0
                => /\ nz.out.payload.key = SubSeq(d, 1, nz.in.key_length)
                   /\ nz.out.payload.iv = SubSeq(d, nz.in.key_length + 1, total)
                   /\ Len(nz.out.payload.key) = nz.in.key_length
                   /\ Len(nz.out.payload.iv) = nz.in.iv_length
                   /\ Elems(nz.out.payload.key) \cap Elems(nz.out.payload.iv) = {}

\* C18: the key derivation terminates for every passphrase, salt and
\* lengths; every iteration hashes (previous digest, passphrase, salt), the
\* first with an empty previous digest, and appends 16 bytes; the loop
\* stops as soon as key_length + iv_length bytes are there (after 3
\* iterations for 32 and 16); the key is the first key_length bytes and the
\* IV the next iv_length bytes, and they share no byte.
DeriveTerminatesAndSlices ==
    /\ []((nz.fn = "derive" /\ nz.in.password # NoStr) => DeriveInOrder)
    /\ (nz.fn = "derive") ~> (nz.pc = "done")

\* A key of 32 bytes and an IV of 16 have been derived in 3 iterations.
DeriveTerminatesAndSlicesWitness ==
    /\ Done("derive")
    /\ nz.in.key_length = 32 /\ nz.in.iv_length = 16
    /\ nz.in.password = PyStr(<<112, 119>>)
    /\ nz.loc.n = 3
    /\ nz.out.ok
    /\ Len(nz.out.payload.key) = 32
    /\ Len(nz.out.payload.iv) = 16
    /\ nz.out.payload.iv = DeriveBlock(nz.loc.d, 3)

====
